---- MODULE Spec2Model ----
(***************************************************************************)
(* A model of the figure-manager repository:                               *)
(*   - FigureManager (src/src/figure_manager/figure_manager.py): the       *)
(*     object's fields, create_figure and save_figure;                     *)
(*   - the grouped-plot helpers (src/src/figure_manager/plotter.py):       *)
(*     _sort_groups, _prepare_plot_data and generate_plot.                 *)
(*                                                                         *)
(* Conventions.                                                            *)
(*   None is <<>> and a present value v is <<v>>, so that a field that is  *)
(*   None in Python and one that holds a value compare without a type      *)
(*   clash.  Lengths are in hundredths of an inch (8.27 in = 827); a       *)
(*   quotient is kept as a fraction [num, den].  A Python string that is   *)
(*   built by formatting is a sequence of tokens, concatenated with \o.    *)
(***************************************************************************)
EXTENDS Integers, Sequences, FiniteSets, TLC

VARIABLES
    \* FigureManager fields (figure_manager.py:19-44)
    output_dir, paper_size, file_ext, dpi, use_latex,
    fig, axes, n_rows, n_cols, n_subplots,
    \* history of the FigureManager: the arguments the constructor was
    \* called with and its paper_size argument, whether a create_figure call
    \* has succeeded, the last call made, and the arguments and return value
    \* of the most recent create_figure call that succeeded
    ctor, paper_arg, created, last, lastOk,
    \* the last call made to a function of plotter.py, with its result
    pcall

\* what the constructor sets and no method assigns
ctorVars == <<output_dir, paper_size, file_ext, dpi, use_latex, ctor, paper_arg>>
\* the figure the manager tracks
tracked == <<fig, axes, n_rows, n_cols, n_subplots>>
fmVars == <<ctorVars, tracked, created, last, lastOk>>
vars == <<ctorVars, tracked, created, last, lastOk, pcall>>

None == <<>>
Some(v) == <<v>>

Min(a, b) == IF a < b THEN a ELSE b
Max(a, b) == IF a > b THEN a ELSE b

(***************************************************************************)
(* Bounds of the model.                                                    *)
(***************************************************************************)
\* integer n_rows and n_cols are drawn from 0..MaxDim
MaxDim == 2
\* integer n_subplots are drawn from -MaxSub..MaxSub+1
MaxSub == 2

(***************************************************************************)
(* Python values passed to create_figure: an int, or a float that is not   *)
(* an int (isinstance(v, int) is False for it).                            *)
(***************************************************************************)
PyInt(k) == <<"int", k>>
PyFloat(k) == <<"float", k>>
IsInt(a) == a[1] = "int"
Val(a) == a[2]

DimArgs == {PyInt(k) : k \in 0..MaxDim}
SubArgs == {PyInt(k) : k \in (0 - MaxSub)..(MaxSub + 1)}
\* the calls that pass a non-integer: each argument in turn, the others
\* valid, and one whose other arguments are too many subplots for no grid
NonIntegerArgs ==
    {<<PyFloat(1), PyInt(1), PyInt(1)>>, <<PyInt(1), PyFloat(1), PyInt(1)>>,
     <<PyInt(1), PyInt(1), PyFloat(1)>>, <<PyFloat(1), PyInt(0), PyInt(1)>>}
\* the (n_rows, n_cols, n_subplots) create_figure is called with
CreateArgs == (DimArgs \X DimArgs \X SubArgs) \cup NonIntegerArgs

(***************************************************************************)
(* FigureManager.__init__                                                  *)
(***************************************************************************)
\* paper_size left as it was passed
LowerIdentity(s) == s

\* str.lower() on the paper names the model constructs managers with
Lower(s) ==
    CASE s = "A4" -> "a4"
      [] s = "A3" -> "a3"
      [] s = "Letter" -> "letter"
      [] OTHER -> s

\* the defaults of the constructor's parameters; a path is a sequence of
\* tokens
DefaultOutputDir == <<"figures", "/">>
DefaultPaperSize == "A4"
DefaultFileExt == ".pdf"
DefaultDpi == 300
DefaultUseLatex == TRUE

\* a constructor call: each keyword argument is passed, or None when it is
\* left out
Ctor(dir, paper, ext, d, latex) ==
    [output_dir |-> dir, paper_size |-> paper, file_ext |-> ext, dpi |-> d,
     use_latex |-> latex]
\* the value a parameter takes
Arg(a, default) == IF a = None THEN default ELSE a[1]

\* FigureManager()
NoArgs == Ctor(None, None, None, None, None)
\* the constructor calls of the model: the call of the test fixture, one
\* that passes another paper, extension and dpi, and one that passes a
\* paper paper_dimensions does not list
CtorArgs ==
    {Ctor(Some(<<"test_figures">>), Some("A4"), None, None, Some(FALSE)),
     Ctor(None, Some("A3"), Some(".png"), Some(150), None),
     Ctor(None, Some("Letter"), None, None, None)}

NoCall ==
    [op |-> "init", r |-> PyInt(0), c |-> PyInt(0), n |-> PyInt(0),
     filename |-> <<>>, fail |-> -1, outcome |-> "ok", ret |-> <<>>,
     styled |-> FALSE, figCreated |-> FALSE, wrote |-> {}, attempts |-> <<>>,
     printed |-> <<>>, createdBefore |-> FALSE]

FMInit(a) ==
    /\ output_dir = Arg(a.output_dir, DefaultOutputDir)
    /\ paper_size = Lower(Arg(a.paper_size, DefaultPaperSize))
    /\ file_ext = Arg(a.file_ext, DefaultFileExt)
    /\ dpi = Arg(a.dpi, DefaultDpi)
    /\ use_latex = Arg(a.use_latex, DefaultUseLatex)
    /\ fig = None
    /\ axes = None
    /\ n_rows = None
    /\ n_cols = None
    /\ n_subplots = None
    /\ ctor = a
    /\ paper_arg = Arg(a.paper_size, DefaultPaperSize)
    /\ created = FALSE
    /\ last = NoCall
    /\ lastOk = None

\* no call to plotter.py has been made
NoPlot ==
    [fn |-> "none", data |-> <<>>, sort_order |-> <<>>, engine |-> <<>>,
     result |-> <<>>]

Init ==
    /\ \E a \in CtorArgs : FMInit(a)
    /\ pcall = NoPlot

(***************************************************************************)
(* FigureManager.set_figure_size                                           *)
(***************************************************************************)
\* widths and heights of the known papers, in hundredths of an inch
paper_dimensions == [A4 |-> <<827, 1169>>, A3 |-> <<1169, 1654>>]

\* paper_dimensions.get(self.paper_size, paper_dimensions["A4"])
PaperLookup(size) ==
    IF size \in DOMAIN paper_dimensions
    THEN paper_dimensions[size]
    ELSE paper_dimensions["A4"]

margin == 50

\* the size handed to fig.set_size_inches: width, and height as a fraction
FigureSize(size, r, c) ==
    LET width == PaperLookup(size)[1]
        usable_width == width - 2 * margin
    IN  [width |-> usable_width,
         hNum |-> usable_width * 3 * r,
         hDen |-> c * 4]

(***************************************************************************)
(* FigureManager.create_figure                                             *)
(***************************************************************************)
AllIntegers(r, c, n) == IsInt(r) /\ IsInt(c) /\ IsInt(n)

TooManySubplotsSum(r, c, n) == Val(n) > Val(r) + Val(c)
TooManySubplots(r, c, n) == Val(n) > Val(r) * Val(c)

\* plt.subplots(n_rows, n_cols) rejects a grid without rows or columns
GridRejected(r, c) == Val(r) <= 0 \/ Val(c) <= 0

\* axes[i] on a flat array of len axes: the cell (1-based) Python index i
\* names; a negative index counts from the end
PyIndex(i, len) == IF i >= 0 THEN i + 1 ELSE len + i + 1
IndexInRange(i, len) == i >= 0 - len /\ i < len

\* for i in range(n_subplots, len(axes)): axes[i].axis("off")
OffCells(n, len) == {PyIndex(i, len) : i \in n..(len - 1)}
OffLoopRaises(n, len) == \E i \in n..(len - 1) : ~IndexInRange(i, len)

\* axes[:n_subplots]
SliceEnd(n, len) == IF n >= 0 THEN Min(n, len) ELSE Max(len + n, 0)
ActiveAxes(n, len) == [i \in 1..SliceEnd(n, len) |-> i]

CreateOutcome(r, c, n) ==
    IF ~AllIntegers(r, c, n) THEN "ValueError"
    ELSE IF TooManySubplots(r, c, n) THEN "ValueError"
    ELSE IF GridRejected(r, c) THEN "ValueError"
    ELSE IF OffLoopRaises(Val(n), Val(r) * Val(c)) THEN "IndexError"
    ELSE "ok"

\* whether the call got as far as self._apply_custom_style()
CreateStyled(r, c, n) == AllIntegers(r, c, n) /\ ~TooManySubplots(r, c, n)

\* the stores made whatever the outcome
StoredAlways(outcome) == TRUE
\* lines 188-192 are reached when nothing before them raised
Stored(outcome) == outcome = "ok"

create_figure(r, c, n) ==
    LET outcome == CreateOutcome(r, c, n)
        len == Val(r) * Val(c)
        active == IF outcome = "ok" THEN ActiveAxes(Val(n), len) ELSE <<>>
    IN  /\ last' = [op |-> "create", r |-> r, c |-> c, n |-> n,
                    filename |-> <<>>, fail |-> -1, outcome |-> outcome,
                    ret |-> active,
                    styled |-> CreateStyled(r, c, n),
                    figCreated |-> CreateStyled(r, c, n),
                    wrote |-> {}, attempts |-> <<>>, printed |-> <<>>,
                    createdBefore |-> created]
        /\ IF Stored(outcome)
           THEN /\ n_rows' = Some(Val(r))
                /\ n_cols' = Some(Val(c))
                /\ n_subplots' = Some(Val(n))
                /\ fig' = Some([size |-> FigureSize(paper_size, Val(r), Val(c)),
                                nrows |-> Val(r), ncols |-> Val(c),
                                off |-> OffCells(Val(n), len),
                                despined |-> {active[i] : i \in DOMAIN active}])
                /\ axes' = Some(active)
           ELSE UNCHANGED tracked
        /\ IF outcome = "ok"
           THEN /\ created' = TRUE
                /\ lastOk' = Some([r |-> Val(r), c |-> Val(c), n |-> Val(n),
                                   ret |-> active])
           ELSE UNCHANGED <<created, lastOk>>
        /\ UNCHANGED <<ctorVars, pcall>>

CreateFigure == \E a \in CreateArgs : create_figure(a[1], a[2], a[3])

(***************************************************************************)
(* FigureManager.save_figure                                               *)
(***************************************************************************)
Digit == <<"1", "2", "3", "4", "5", "6", "7", "8", "9">>

RECURSIVE Str(_)
\* str(i) for i >= 1, as a sequence of digit tokens
Str(i) ==
    IF i < 10 THEN <<Digit[i]>>
    ELSE Str(i \div 10) \o <<IF i % 10 = 0 THEN "0" ELSE Digit[i % 10]>>

\* os.path.join(self.output_dir, name) for a name without a path
\* separator: a "/" is put after a directory that does not end in one
Join(dir, name) ==
    IF dir # <<>> /\ dir[Len(dir)] # "/" THEN dir \o <<"/">> \o name
    ELSE dir \o name

\* f"{filename}{self.file_ext}"
FullPath(filename) == Join(output_dir, filename \o <<file_ext>>)
\* f"{filename}_subplot_{i + 1}{self.file_ext}", i the 0-based position
SubplotPath(filename, i) ==
    Join(output_dir, filename \o <<"_subplot_">> \o Str(i + 1) \o <<file_ext>>)

FileNames == {<<"figure">>, <<"figure", "_subplot_", "1">>}

NotCreatedInverted == fig # None \/ axes # None
\* if self.fig is None or self.axes is None
NotCreated == fig = None \/ axes = None

\* the line printed after the write numbered j (0: the full figure, i: the
\* i-th subplot) of path; e stands for the text of the exception
SavedLine(j, path, failed) ==
    IF j = 0
    THEN IF failed THEN <<"Error saving full figure: ", "e">>
         ELSE <<"Saved full figure to ">> \o path
    ELSE IF failed THEN <<"Error saving subplot ">> \o path \o <<": ", "e">>
         ELSE <<"Saved subplot to ">> \o path

\* the writes given up after the one that fails
AttemptedUntilFailure(k, fail) == IF fail = -1 THEN k + 1 ELSE fail + 1
\* the number of writes attempted for k axes: each savefig call sits in a
\* try block of its own, so a write that fails ends none of the later ones
Attempted(k, fail) == k + 1

\* save_figure(filename); the write numbered fail raises inside savefig
\* (0: the full figure, i: the i-th subplot, -1: none)
save_figure(filename, fail) ==
    LET base == [op |-> "save", r |-> PyInt(0), c |-> PyInt(0), n |-> PyInt(0),
                 filename |-> filename, fail |-> fail, outcome |-> "ok",
                 ret |-> <<>>, styled |-> FALSE, figCreated |-> FALSE,
                 wrote |-> {}, attempts |-> <<>>, printed |-> <<>>,
                 createdBefore |-> created]
    IN  /\ IF NotCreated
           THEN last' = [base EXCEPT !.outcome = "RuntimeError"]
           ELSE IF fig = None
           THEN \* self.fig.tight_layout() on None
                last' = [base EXCEPT !.outcome = "AttributeError"]
           ELSE IF axes = None
           THEN \* enumerate(self.axes) on None, after the full figure
                last' = [base EXCEPT !.outcome = "TypeError",
                                     !.attempts = <<FullPath(filename)>>,
                                     !.wrote = IF fail = 0 THEN {}
                                               ELSE {FullPath(filename)},
                                     !.printed = <<SavedLine(0, FullPath(filename),
                                                             fail = 0)>>]
           ELSE LET k == Len(axes[1])
                    paths == <<FullPath(filename)>> \o
                             [i \in 1..k |-> SubplotPath(filename, i - 1)]
                    made == Attempted(k, fail)
                IN  last' = [base EXCEPT
                                !.attempts = SubSeq(paths, 1, made),
                                !.wrote = {paths[j] : j \in
                                            {j \in 1..made : j - 1 # fail}},
                                !.printed = [j \in 1..made |->
                                    SavedLine(j - 1, paths[j], j - 1 = fail)]]
        /\ UNCHANGED <<ctorVars, tracked, created, lastOk, pcall>>

\* the failing write is one of those the call makes
SaveFigure ==
    \E filename \in FileNames, fail \in -1..(MaxDim * MaxDim) :
        /\ fail <= (IF axes = None THEN 0 ELSE Len(axes[1]))
        /\ save_figure(filename, fail)

NextFM == CreateFigure \/ SaveFigure

SpecFM == Init /\ [][NextFM]_vars

(***************************************************************************)
(* Claims about FigureManager, checked under SpecFM.                       *)
(***************************************************************************)
LastCreate == last.op = "create"
LastSave == last.op = "save"

\* C1: a save_figure call made when no create_figure call has yet succeeded
\* raises RuntimeError and writes no file: it attempts neither the
\* full-figure file nor any subplot file.
C1_SaveBeforeCreateRaises ==
    (LastSave /\ ~last.createdBefore) =>
        /\ last.outcome = "RuntimeError"
        /\ last.wrote = {}
        /\ last.attempts = <<>>

\* a save_figure call was made after only failed create_figure calls, or none
C1_Witness == LastSave /\ ~created /\ last.outcome = "RuntimeError"

\* the files C2 says a save_figure(filename) call writes
C2_Expected(filename) ==
    {FullPath(filename)} \cup
    {Join(output_dir, filename \o <<"_subplot_">> \o Str(i) \o <<file_ext>>) :
        i \in 1..n_subplots[1]}

\* C2: after a successful create_figure(n_rows, n_cols, n_subplots), a
\* save_figure(filename) call in which no write fails writes the full-figure
\* file and one file '<filename>_subplot_<i><file_ext>' for every i in
\* 1..n_subplots, and no other file.
C2_SaveWritesFullAndSubplots ==
    (LastSave /\ last.outcome = "ok" /\ last.fail = -1) =>
        last.wrote = C2_Expected(last.filename)

\* C3: a create_figure(n_rows, n_cols, n_subplots) call that returns without
\* raising returns and stores exactly n_subplots axes, stores its three
\* arguments, and switches off exactly the remaining
\* n_rows*n_cols - n_subplots cells of the grid.
C3_CreateStoresArguments ==
    (LastCreate /\ last.outcome = "ok") =>
        /\ Len(last.ret) = Val(last.n)
        /\ Len(axes[1]) = Val(last.n)
        /\ n_rows = Some(Val(last.r))
        /\ n_cols = Some(Val(last.c))
        /\ n_subplots = Some(Val(last.n))
        /\ Cardinality(fig[1].off) = Val(last.r) * Val(last.c) - Val(last.n)
        /\ fig[1].off \cap {last.ret[i] : i \in DOMAIN last.ret} = {}

\* the arguments of the last call fail create_figure's validation: one of
\* them is not an integer, or n_subplots exceeds n_rows*n_cols
C4_Invalid ==
    \/ last.r[1] # "int" \/ last.c[1] # "int" \/ last.n[1] # "int"
    \/ last.n[2] > last.r[2] * last.c[2]

\* C4: create_figure raises ValueError when n_subplots exceeds n_rows*n_cols
\* and when one of its arguments is not an integer, before the custom style
\* is applied and before any figure is created.
C4_InvalidCreateRaisesEarly ==
    (LastCreate /\ C4_Invalid) =>
        /\ last.outcome = "ValueError"
        /\ ~last.styled
        /\ ~last.figCreated

\* create_figure was called with integers and more subplots than grid cells
C4_Witness ==
    /\ LastCreate
    /\ last.r[1] = "int" /\ last.c[1] = "int" /\ last.n[1] = "int"
    /\ last.r[2] * last.c[2] > 0
    /\ last.n[2] > last.r[2] * last.c[2]
    /\ last.outcome = "ValueError"

\* the paper width C5 gives for a constructor argument, in hundredths of an
\* inch: A4 = 8.27 in, A3 = 11.69 in, anything else A4
C5_PaperWidth(paper) == IF paper = "A3" THEN 1169 ELSE 827

\* C5: the figure is sized from the paper size the manager was constructed
\* with: its width is the paper's width minus 0.5 in on each side (10.69 in
\* for 'A3', 7.27 in for 'A4') and its height n_rows * 0.75 * (width/n_cols).
C5_FigureSizedFromPaper ==
    fig # None =>
        LET size == fig[1].size
            usable == C5_PaperWidth(paper_arg) - 100
        IN  /\ size.width = usable
            /\ size.hNum * (4 * n_cols[1]) = size.hDen * (3 * n_rows[1] * usable)

\* the paper names in lower case
C16_Lower(paper) ==
    CASE paper = "A4" -> "a4" [] paper = "A3" -> "a3" [] paper = "Letter" -> "letter"

\* C16: a newly constructed FigureManager stores output_dir as given,
\* paper_size lower-cased, file_ext (default '.pdf'), dpi (default 300) and
\* the use_latex flag, and tracks no figure: fig, axes, n_rows, n_cols and
\* n_subplots are all None.
C16_NewManager ==
    last.op = "init" =>
        /\ ctor.output_dir # None => output_dir = ctor.output_dir[1]
        /\ ctor.paper_size # None => paper_size = C16_Lower(ctor.paper_size[1])
        /\ file_ext = (IF ctor.file_ext = None THEN ".pdf" ELSE ctor.file_ext[1])
        /\ dpi = (IF ctor.dpi = None THEN 300 ELSE ctor.dpi[1])
        /\ ctor.use_latex # None => use_latex = ctor.use_latex[1]
        /\ fig = None /\ axes = None
        /\ n_rows = None /\ n_cols = None /\ n_subplots = None

\* a manager was constructed as in the test fixture: with an output_dir, an
\* upper-case paper_size and use_latex, without file_ext and dpi
C16_Witness ==
    /\ last.op = "init"
    /\ ctor.output_dir = Some(<<"test_figures">>)
    /\ ctor.paper_size = Some("A4")
    /\ ctor.file_ext = None /\ ctor.dpi = None
    /\ ctor.use_latex = Some(FALSE)
    /\ paper_size = "a4"

\* C19: a create_figure call that raises ValueError leaves the manager's
\* tracked state (fig, axes, n_rows, n_cols, n_subplots) unchanged; in
\* particular, after a successful create_figure followed by a rejected one,
\* save_figure still exports the earlier figure with its earlier number of
\* subplots.
C19_RejectedCreateKeepsFigure ==
    [][/\ (last' # last /\ last'.op = "create" /\ last'.outcome = "ValueError")
            => UNCHANGED tracked
       /\ (/\ last.op = "create" /\ last.outcome = "ValueError" /\ created
           /\ last' # last /\ last'.op = "save")
            => /\ last'.outcome = "ok"
               /\ fig'[1].nrows = lastOk[1].r /\ fig'[1].ncols = lastOk[1].c
               /\ Len(last'.attempts) = 1 + Len(lastOk[1].ret)]_vars

\* a create_figure call was rejected after an earlier one had succeeded
C19_Witness ==
    /\ LastCreate
    /\ last.outcome = "ValueError"
    /\ last.createdBefore
    /\ fig # None
    /\ Len(axes[1]) > 0

\* C20: in every state reachable by any sequence of create_figure and
\* save_figure calls, the manager's fig, axes, n_rows, n_cols and
\* n_subplots are either all None or all set by the same, most recent
\* successful create_figure call with n_subplots <= n_rows*n_cols;
\* save_figure never changes any of them.
C20_TrackedTogether ==
    IF lastOk = None
    THEN fig = None /\ axes = None /\ n_rows = None /\ n_cols = None
         /\ n_subplots = None
    ELSE /\ fig # None
         /\ fig[1].nrows = lastOk[1].r /\ fig[1].ncols = lastOk[1].c
         /\ axes = Some(lastOk[1].ret)
         /\ n_rows = Some(lastOk[1].r)
         /\ n_cols = Some(lastOk[1].c)
         /\ n_subplots = Some(lastOk[1].n)
         /\ n_subplots[1] <= n_rows[1] * n_cols[1]

\* a save_figure call returned after a create_figure call had set a figure
\* with fewer subplots than grid cells
C20_Witness ==
    /\ LastSave
    /\ last.outcome = "ok"
    /\ lastOk # None
    /\ n_subplots[1] > 0
    /\ n_subplots[1] < n_rows[1] * n_cols[1]

\* the subplot file of the i-th tracked axes, i counted from 1
C21_SubplotFile(i) ==
    Join(output_dir, last.filename \o <<"_subplot_">> \o Str(i) \o <<file_ext>>)

\* C21: once a figure has been created, a failure while writing the
\* full-figure file or any one subplot file is caught and reported by
\* printing: it does not propagate out of save_figure and does not prevent
\* the attempts to write each of the remaining subplot files.
C21_WriteFailureCaught ==
    (LastSave /\ last.createdBefore /\ last.fail >= 0) =>
        /\ last.outcome = "ok"
        /\ Len(last.attempts) = 1 + Len(axes[1])
        /\ \A i \in 1..Len(axes[1]) : last.attempts[i + 1] = C21_SubplotFile(i)
        /\ \A i \in 1..Len(axes[1]) :
              i # last.fail => C21_SubplotFile(i) \in last.wrote
        /\ Len(last.printed) = Len(last.attempts)
        /\ last.printed[last.fail + 1][1] \in
              {"Error saving full figure: ", "Error saving subplot "}
        /\ \A j \in DOMAIN last.printed :
              j # last.fail + 1 =>
                last.printed[j][1] \in {"Saved full figure to ", "Saved subplot to "}

\* a save_figure call returned in which the write of the first subplot
\* failed and a later subplot was still to be written
C21_Witness ==
    /\ LastSave
    /\ last.createdBefore
    /\ last.fail = 1
    /\ Len(axes[1]) >= 2
    /\ last.outcome = "ok"
    /\ C21_SubplotFile(2) \in last.wrote

(***************************************************************************)
(* plotter.py: tables, dictionaries and the grouping engine                *)
(***************************************************************************)
\* group labels are 1..NumVals; a table has at most MaxRows rows; a
\* sort_order has at most MaxOrder entries
NumVals == 2
MaxRows == 3
MaxOrder == 2

\* the null value of the group column: the key of its group is (None,)
Null == 0

GroupVals == Null..NumVals

\* A table with the columns "g", "x" and "y": row i has the group label
\* gs[i], x = 2 in the first two rows and 1 in the later ones, and y = i, so
\* that within a group x values repeat and need not be ascending, and no
\* two rows are equal.
MkTable(gs) ==
    [i \in 1..Len(gs) |-> [g |-> gs[i], x |-> IF i <= 2 THEN 2 ELSE 1, y |-> i]]

SeqsUpTo(S, n) == UNION {[1..k -> S] : k \in 0..n}

Tables == {MkTable(gs) : gs \in SeqsUpTo(GroupVals, MaxRows)}

\* an entry of sort_order: a scalar v, or a tuple
Scalar(v) == <<"s", v>>
Tuple(t) == <<"t", t>>
OrderEntries ==
    {Scalar(v) : v \in GroupVals} \cup {Tuple(<<1>>), Tuple(<<1, 2>>)}
SortOrders == SeqsUpTo(OrderEntries, MaxOrder)

\* the key of a row under the group_by columns cols
KeyOf(row, cols) == [i \in 1..Len(cols) |-> row[cols[i]]]
RowsOf(table, cols, key) == SelectSeq(table, LAMBDA row : KeyOf(row, cols) = key)
DistinctKeys(table, cols) == {KeyOf(table[i], cols) : i \in DOMAIN table}

\* the orders in which data.group_by(cols) may yield the groups of a table:
\* the engine promises none
Orderings(S) ==
    {p \in [1..Cardinality(S) -> S] :
        \A i, j \in 1..Cardinality(S) : p[i] = p[j] => i = j}
EngineOrders(table, cols) == Orderings(DistinctKeys(table, cols))

\* A Python dict, which keeps insertion order: a sequence of <<key, value>>
DictKeys(d) == [i \in DOMAIN d |-> d[i][1]]
HasKey(d, k) == \E i \in DOMAIN d : d[i][1] = k
DictGet(d, k) == d[CHOOSE i \in DOMAIN d : d[i][1] = k][2]
DictPop(d, k) == SelectSeq(d, LAMBDA e : e[1] # k)
DictSet(d, k, v) ==
    IF HasKey(d, k)
    THEN [i \in DOMAIN d |-> IF d[i][1] = k THEN <<k, v>> ELSE d[i]]
    ELSE Append(d, <<k, v>>)
RECURSIVE DictUpdate(_, _)
DictUpdate(d, e) ==
    IF e = <<>> THEN d
    ELSE DictUpdate(DictSet(d, e[1][1], e[1][2]), Tail(e))

\* {name: data for name, data in data.group_by(cols)}: the groups are those
\* of the frame that is grouped, the engine yielding them in the order engine
GroupBy(table, cols, engine) ==
    LET present == SelectSeq(engine, LAMBDA key : key \in DistinctKeys(table, cols))
    IN  [i \in DOMAIN present |-> <<present[i], RowsOf(table, cols, present[i])>>]

(***************************************************************************)
(* plotter.py: _sort_groups                                                *)
(***************************************************************************)
\* a scalar left as it is equals no key
NormalizeUnwrapped(item) == IF item[1] = "t" THEN item[2] ELSE <<>>
\* (item,) if not isinstance(item, tuple) else item
Normalize(item) == IF item[1] = "t" THEN item[2] ELSE <<item[2]>>

RECURSIVE TakeNamed(_, _, _)
\* the loop over normalized_sort_order: <<sorted_groups, grouped_data>>
TakeNamed(order, sorted, grouped) ==
    IF order = <<>> THEN <<sorted, grouped>>
    ELSE LET name == Normalize(order[1])
         IN  IF HasKey(grouped, name)
             THEN TakeNamed(Tail(order),
                            DictSet(sorted, name, DictGet(grouped, name)),
                            DictPop(grouped, name))
             ELSE TakeNamed(Tail(order), sorted, grouped)

\* the null group left out when sort_order does not name it
CustomOrderDropsNull(grouped_data, sort_order) ==
    LET taken == TakeNamed(sort_order, <<>>, grouped_data)
    IN  DictUpdate(taken[1], SelectSeq(taken[2], LAMBDA e : e[1] # <<Null>>))

\* the branch taken for a non-empty sort_order
CustomOrder(grouped_data, sort_order) ==
    LET taken == TakeNamed(sort_order, <<>>, grouped_data)
        sorted == taken[1]
        rest == taken[2]
        remaining_groups == SelectSeq(rest, LAMBDA e : e[1] # <<Null>>)
        withNull == IF HasKey(rest, <<Null>>)
                    THEN DictSet(sorted, <<Null>>, DictGet(rest, <<Null>>))
                    ELSE sorted
    IN  DictUpdate(withNull, remaining_groups)

\* sort_key: (2, None) for the null group, (0, group_name) for a tuple
SortRank(name) == IF name = <<Null>> THEN 2 ELSE 0

RECURSIVE TupleLess(_, _)
\* Python's < on two tuples of integers
TupleLess(a, b) ==
    IF a = <<>> THEN b # <<>>
    ELSE IF b = <<>> THEN FALSE
    ELSE IF a[1] # b[1] THEN a[1] < b[1]
    ELSE TupleLess(Tail(a), Tail(b))

SortKeyLess(a, b) ==
    \/ SortRank(a) < SortRank(b)
    \/ SortRank(a) = SortRank(b) /\ SortRank(a) = 0 /\ TupleLess(a, b)

RECURSIVE InsertStable(_, _)
\* e placed after every entry that is not greater than it
InsertStable(d, e) ==
    IF d = <<>> THEN <<e>>
    ELSE IF SortKeyLess(e[1], d[Len(d)][1])
         THEN Append(InsertStable(SubSeq(d, 1, Len(d) - 1), e), d[Len(d)])
         ELSE Append(d, e)

RECURSIVE SortedByKey(_)
\* dict(sorted(grouped_data.items(), key=sort_key)); sorted is stable
SortedByKey(d) ==
    IF d = <<>> THEN <<>>
    ELSE InsertStable(SortedByKey(SubSeq(d, 1, Len(d) - 1)), d[Len(d)])

\* a sort_order that is None or [] is falsy: both are <<>> here
_sort_groups(table, cols, sort_order, engine) ==
    LET grouped_data == GroupBy(table, cols, engine)
    IN  IF sort_order # <<>>
        THEN CustomOrder(grouped_data, sort_order)
        ELSE SortedByKey(grouped_data)

GroupCols == <<"g">>

SortGroups ==
    /\ pcall.fn = "none"
    /\ \E table \in Tables, sort_order \in SortOrders :
         \E engine \in EngineOrders(table, GroupCols) :
            pcall' = [fn |-> "sort", data |-> table, sort_order |-> sort_order,
                      engine |-> engine,
                      result |-> _sort_groups(table, GroupCols, sort_order, engine)]
    /\ UNCHANGED fmVars

(***************************************************************************)
(* plotter.py: _prepare_plot_data                                          *)
(***************************************************************************)
\* the group_by_cols argument: a column name, a list of names, or None
GbStr(c) == <<"str", c>>
GbList(l) == <<"list", l>>
GbNone == <<"none", <<>>>>

\* the first lines of _prepare_plot_data: group_by_cols as a list
GroupByList(gb) ==
    IF gb[1] = "str" THEN <<gb[2]>>
    ELSE IF gb[1] = "list" THEN gb[2]
    ELSE <<>>

\* agg_fct(y_col), for the aggregation functions "sum" and "min"
RECURSIVE SumOf(_)
SumOf(ys) == IF ys = <<>> THEN 0 ELSE ys[1] + SumOf(Tail(ys))
RECURSIVE MinOf(_)
MinOf(ys) == IF Len(ys) = 1 THEN ys[1] ELSE Min(ys[1], MinOf(Tail(ys)))
AggValue(agg, ys) == IF agg = "sum" THEN SumOf(ys) ELSE MinOf(ys)

RECURSIVE SortedTuples(_)
\* the tuples of a set in ascending order (a null, being 0, comes first, as
\* it does in the dataframe library's sort)
SortedTuples(S) ==
    IF S = {} THEN <<>>
    ELSE LET least == CHOOSE t \in S : \A u \in S \ {t} : TupleLess(t, u)
         IN  <<least>> \o SortedTuples(S \ {least})

\* the rows holding a null in an over column left out of the aggregation
AggregateWithoutNull(table, over, y_col, agg) ==
    LET kept == SelectSeq(table, LAMBDA row :
                    \A i \in DOMAIN over : row[over[i]] # Null)
        keys == SortedTuples(DistinctKeys(kept, over))
        ys(key) == LET rows == RowsOf(kept, over, key)
                   IN  [i \in DOMAIN rows |-> rows[i][y_col]]
    IN  [k \in DOMAIN keys |->
            [col \in {over[i] : i \in DOMAIN over} \cup {y_col} |->
                IF col = y_col THEN AggValue(agg, ys(keys[k]))
                ELSE keys[k][CHOOSE i \in DOMAIN over : over[i] = col]]]

\* the first y value of each combination kept in place of the aggregate
AggregateFirst(table, over, y_col, agg) ==
    LET keys == SortedTuples(DistinctKeys(table, over))
    IN  [k \in DOMAIN keys |->
            [col \in {over[i] : i \in DOMAIN over} \cup {y_col} |->
                IF col = y_col THEN RowsOf(table, over, keys[k])[1][y_col]
                ELSE keys[k][CHOOSE i \in DOMAIN over : over[i] = col]]]

\* data.group_by(over_columns).agg(agg_fct(y_col).alias(y_col))
\*     .sort(over_columns): one row per combination of the over columns,
\* holding these columns and the aggregated y_col
Aggregate(table, over, y_col, agg) ==
    LET keys == SortedTuples(DistinctKeys(table, over))
        ys(key) == LET rows == RowsOf(table, over, key)
                   IN  [i \in DOMAIN rows |-> rows[i][y_col]]
    IN  [k \in DOMAIN keys |->
            [col \in {over[i] : i \in DOMAIN over} \cup {y_col} |->
                IF col = y_col THEN AggValue(agg, ys(keys[k]))
                ELSE keys[k][CHOOSE i \in DOMAIN over : over[i] = col]]]

\* y_col and label are None (<<>>) or <<name>>; agg is "none" for no agg_fct.
\* The result: <<pre_agg_data, sorted_groups>>.  The engine orders the first
\* and the second _sort_groups call group in are engine1 and engine2.
_prepare_plot_data(table, x_col, y_col, gb, sort_order, agg, label, engine1, engine2) ==
    LET group_by_cols == GroupByList(gb)
        pre_agg_data ==
            IF group_by_cols = <<>> THEN << <<label, table>> >>
            ELSE _sort_groups(table, group_by_cols, sort_order, engine1)
        data ==
            IF agg # "none" /\ y_col # None
            THEN Aggregate(table, <<x_col>> \o group_by_cols, y_col[1], agg)
            ELSE table
        sorted_groups ==
            IF group_by_cols = <<>> THEN << <<label, data>> >>
            ELSE _sort_groups(data, group_by_cols, sort_order, engine2)
    IN  <<pre_agg_data, sorted_groups>>

\* the (agg_fct, y_col) pairs _prepare_plot_data is called with
AggArgs == {<<"none", <<"y">>>>, <<"sum", <<"y">>>>, <<"min", <<"y">>>>,
            <<"sum", None>>}
LabelArgs == {None, <<"L">>}
\* the tables _prepare_plot_data and generate_plot are called with
PlotTables == {MkTable(gs) : gs \in SeqsUpTo(GroupVals, MaxRows - 1)}
\* the sort orders _prepare_plot_data is called with: at most one entry
PrepSortOrders == SeqsUpTo(OrderEntries, 1)

PrepareCall(table, gb, sort_order, a, label, engine1, engine2) ==
    pcall' = [fn |-> "prepare", data |-> table, sort_order |-> sort_order,
              engine |-> engine1, engine2 |-> engine2, group_by |-> gb,
              agg |-> a[1], y_col |-> a[2], label |-> label,
              result |-> _prepare_plot_data(table, "x", a[2], gb, sort_order,
                                            a[1], label, engine1, engine2)]

\* a call with group_by columns; the label is not read
PreparePlotDataGrouped ==
    /\ pcall.fn = "none"
    /\ \E table \in PlotTables, gb \in {GbStr("g"), GbList(GroupCols)},
          sort_order \in PrepSortOrders, a \in AggArgs :
         \E engine1, engine2 \in EngineOrders(table, GroupCols) :
            PrepareCall(table, gb, sort_order, a, None, engine1, engine2)
    /\ UNCHANGED fmVars

\* a call without group_by columns; neither sort_order nor the engine's
\* group order is read
PreparePlotDataUngrouped ==
    /\ pcall.fn = "none"
    /\ \E table \in PlotTables, gb \in {GbNone, GbList(<<>>)}, a \in AggArgs,
          label \in LabelArgs :
            PrepareCall(table, gb, <<>>, a, label, <<>>, <<>>)
    /\ UNCHANGED fmVars

(***************************************************************************)
(* plotter.py: generate_plot                                               *)
(***************************************************************************)
\* the data argument: a Polars DataFrame holding a table, or another value
DataFrame(table) == <<"df", table>>
NotADataFrame == <<"str", <<>>>>

IsDataFrameAlways(data) == TRUE
\* isinstance(data, pl.DataFrame)
IsDataFrame(data) == data[1] = "df"

\* data.columns: every table of the model has the columns g, x and y; a
\* value that is no DataFrame has no such attribute
HasColumns(data) == data[1] = "df"
Columns(data) == {"g", "x", "y"}

\* the y_err argument: None, a column name, a tuple or list of entries, or
\* a true value of another type
YErrStr(c) == <<"str", c>>
YErrTuple(cs) == <<"tuple", cs>>
YErrOther == <<"int", <<>>>>

\* only the first entry looked at
FirstColumnName(cols, data) == cols = <<>> \/ cols[1] \in Columns(data)
\* all(isinstance(col, str) and col in data.columns for col in y_err)
AllColumnNames(cols, data) == \A i \in DOMAIN cols : cols[i] \in Columns(data)

\* lines 260-272: the exception the argument checks raise, or "ok"
Validate(data, x, y, plot_type, y_err) ==
    IF ~IsDataFrame(data) THEN "TypeError"
    ELSE IF ~HasColumns(data) THEN "AttributeError"
    ELSE IF x \notin Columns(data) THEN "ValueError"
    ELSE IF y # None /\ y[1] \notin Columns(data) /\ plot_type # "hist"
    THEN "ValueError"
    ELSE IF y_err # None /\ y_err[1] = "str" /\ y_err[2] \notin Columns(data)
    THEN "ValueError"
    ELSE IF y_err # None /\ y_err[1] = "tuple" /\ ~AllColumnNames(y_err[2], data)
    THEN "ValueError"
    ELSE "ok"

\* y_err = y_err or "": None and an empty tuple or list are false
YErrGiven(y_err) == y_err # None /\ ~(y_err[1] = "tuple" /\ y_err[2] = <<>>)

\* str(v) for a group value
StrOf(v) == IF v = Null THEN <<"None">> ELSE Str(v)

\* the first component alone
JoinStrFirst(key) == IF key = <<>> THEN <<>> ELSE StrOf(key[1])
RECURSIVE JoinStr(_)
\* ", ".join(map(str, group_name)) for a key of group values
JoinStr(key) ==
    IF key = <<>> THEN <<>>
    ELSE IF Len(key) = 1 THEN StrOf(key[1])
    ELSE StrOf(key[1]) \o <<", ">> \o JoinStr(Tail(key))

\* the label of a series: the key joined; without group_by columns the key
\* is (label,), kept as the label itself
GroupLabel(key, grouped) ==
    IF grouped THEN JoinStr(key)
    ELSE IF key = None THEN <<"None">> ELSE key

Column(rows, col) == [i \in DOMAIN rows |-> rows[i][col]]

\* the columns of the frame the loop reads its groups from: those of data,
\* or the over columns and y after the aggregation
FrameColumns(data, x, y, gb, agg) ==
    IF agg # "none" /\ y # None
    THEN {x, y[1]} \cup {GroupByList(gb)[i] : i \in DOMAIN GroupByList(gb)}
    ELSE Columns(data)

\* the number of rows of a frame holding each of its x values
CountOf(rows, x, v) == Cardinality({i \in DOMAIN rows : rows[i][x] = v})
XValues(rows, x) == {rows[i][x] : i \in DOMAIN rows}

\* the bin-count threshold of the warning, and the default number of bins
WarnLimit == 5
DefaultBins == 10

\* the range np.histogram(values, bins=bins) bins integer values over, in
\* halves: (min, max), widened by a half on each side when min = max, and
\* (0, 1) for no values
HistRange(xs) ==
    IF xs = {} THEN <<0, 2>>
    ELSE LET lo == CHOOSE v \in xs : \A u \in xs : v <= u
             hi == CHOOSE v \in xs : \A u \in xs : u <= v
         IN  IF lo = hi THEN <<2 * lo - 1, 2 * hi + 1>> ELSE <<2 * lo, 2 * hi>>
\* the bin a value falls in, the last bin being closed on the right
BinOf(v, range, bins) ==
    Min(((2 * v - range[1]) * bins) \div (range[2] - range[1]), bins - 1)
\* counts of np.histogram: the number of values in each of the bins
HistCounts(rows, x, bins, range) ==
    [k \in 0..(bins - 1) |->
        Cardinality({i \in DOMAIN rows : BinOf(rows[i][x], range, bins) = k})]
\* np.argmin(counts): the first index holding the least count
ArgMin(counts) ==
    CHOOSE k \in DOMAIN counts :
        \A j \in DOMAIN counts :
            counts[k] < counts[j] \/ (counts[k] = counts[j] /\ k <= j)
\* counts.min() and bin_edges[np.argmin(counts)], the edge being the
\* fraction <<numerator, denominator>>
HistInfo(counts, range, bins) ==
    [min_count |-> Some(counts[ArgMin(counts)]),
     min_position |-> <<range[1] * bins + ArgMin(counts) * (range[2] - range[1]),
                        2 * bins>>]
\* data.group_by(x_col).agg(pl.len()): the number of rows per x value
XCounts(rows, x) == [v \in XValues(rows, x) |-> CountOf(rows, x, v)]
\* the least of these counts, and the x values holding it; the engine lists
\* them in no promised order, so they are a set here
GroupInfo(counts) ==
    LET least == CHOOSE c \in {counts[v] : v \in DOMAIN counts} :
                    \A v \in DOMAIN counts : c <= counts[v]
    IN  [min_count |-> Some(least),
         min_position |-> {v \in DOMAIN counts : counts[v] = least}]

\* _get_min_count_info(data, x_col, bins): [min_count, min_position];
\* without bins min_count is None for a frame without rows
_get_min_count_info(rows, x, bins) ==
    IF bins # None
    THEN HistInfo(HistCounts(rows, x, bins[1], HistRange(XValues(rows, x))),
                  HistRange(XValues(rows, x)), bins[1])
    ELSE IF rows = <<>> THEN [min_count |-> None, min_position |-> {}]
    ELSE GroupInfo(XCounts(rows, x))

\* what the verbose branch does for one group: the line printed, or the
\* TypeError of min_count <= 5 when min_count is None
VerboseLine(lbl, pre_rows, x, bins) ==
    LET info == _get_min_count_info(pre_rows, x, bins)
    IN  IF info.min_count = None
        THEN [outcome |-> "TypeError", printed |-> <<>>]
        ELSE [outcome |-> "ok",
              printed |-> <<[warning |-> info.min_count[1] <= WarnLimit,
                             group |-> lbl,
                             n |-> Len(pre_rows),
                             min_count |-> info.min_count[1],
                             min_position |-> info.min_position]>>]

Series(kind, lbl, xs, ys, yerr) ==
    [kind |-> kind, label |-> lbl, x |-> xs, y |-> ys, yerr |-> yerr]

\* what one pass of the loop over sorted_groups draws on the axes, or the
\* exception that ends the pass; cols are the columns of the group's frame
DrawGroup(key, rows, x, y, plot_type, y_err, grouped, cols) ==
    LET lbl == GroupLabel(key, grouped)
        xs == Column(rows, x)
        raise(e) == [outcome |-> e, drawn |-> <<>>]
        draw(artists) == [outcome |-> "ok", drawn |-> artists]
    IN  IF plot_type = "hist"
        THEN draw(<<Series("hist", lbl, xs, <<>>, <<>>)>>)
        ELSE IF y = None
        THEN draw(<<Series(plot_type, lbl, xs, <<>>, <<>>)>>)
        ELSE IF ~YErrGiven(y_err)
        THEN draw(<<Series(plot_type, lbl, xs, Column(rows, y[1]), <<>>)>>)
        ELSE IF y_err[1] = "str"
        THEN IF y_err[2] \notin cols THEN raise("ColumnNotFoundError")
             ELSE draw(<<Series("errorbar", lbl, xs, Column(rows, y[1]),
                                Column(rows, y_err[2]))>>)
        ELSE IF y_err[1] = "tuple"
        THEN IF y_err[2][1] \notin cols THEN raise("ColumnNotFoundError")
             ELSE IF Len(y_err[2]) < 2 THEN raise("IndexError")
             ELSE IF y_err[2][2] \notin cols THEN raise("ColumnNotFoundError")
             ELSE draw(<<Series(plot_type, lbl, xs, Column(rows, y[1]), <<>>),
                         Series("fill_between", <<>>, xs, <<>>,
                                <<Column(rows, y_err[2][1]),
                                  Column(rows, y_err[2][2])>>)>>)
        ELSE raise("TypeError")

RECURSIVE DrawAll(_, _, _, _, _, _, _, _, _, _)
\* the loop over sorted_groups: [outcome, drawn, printed]; an exception ends
\* it, what was drawn and printed before stays
DrawAll(groups, pre_agg_data, x, y, plot_type, y_err, grouped, cols, verbose, bins) ==
    IF groups = <<>>
    THEN [outcome |-> "ok", drawn |-> <<>>, printed |-> <<>>]
    ELSE LET key == groups[1][1]
             d == DrawGroup(key, groups[1][2], x, y, plot_type, y_err,
                            grouped, cols)
             v == IF d.outcome = "ok" /\ verbose
                  THEN IF HasKey(pre_agg_data, key)
                       THEN VerboseLine(GroupLabel(key, grouped),
                                        DictGet(pre_agg_data, key), x,
                                        IF plot_type = "hist" THEN Some(bins)
                                        ELSE None)
                       ELSE \* pre_agg_data[group_name] on a missing key
                            [outcome |-> "KeyError", printed |-> <<>>]
                  ELSE [outcome |-> d.outcome, printed |-> <<>>]
             rest == IF v.outcome = "ok"
                     THEN DrawAll(Tail(groups), pre_agg_data, x, y, plot_type,
                                  y_err, grouped, cols, verbose, bins)
                     ELSE [outcome |-> v.outcome, drawn |-> <<>>,
                           printed |-> <<>>]
         IN  [outcome |-> rest.outcome,
              drawn |-> d.drawn \o rest.drawn,
              printed |-> v.printed \o rest.printed]

\* str.capitalize() for the names of the model
Capitalize(s) ==
    CASE s = "x" -> "X" [] s = "y" -> "Y" [] s = "g" -> "G" [] s = "zz" -> "Zz"
      [] s = "plot" -> "Plot" [] s = "hist" -> "Hist" [] OTHER -> s

\* _setup_plot_axes(ax, x_col, y_col, plot_type, {}): the labels and the
\* title set; the y label is left as it was (None here) without y_col
_setup_plot_axes(x_col, y_col, plot_type) ==
    [xlabel |-> Some(Capitalize(x_col)),
     ylabel |-> IF y_col # None THEN Some(Capitalize(y_col[1])) ELSE None,
     title |-> IF y_col # None
               THEN <<Capitalize(plot_type), " of ", y_col[1], " by ", x_col>>
               ELSE <<Capitalize(plot_type), " of ", x_col>>]

\* the legend shown for a group_by column alone
ShowLegendGrouped(gb, label) == GroupByList(gb) # <<>>
\* if group_by or label: ax.legend()
ShowLegend(gb, label) == GroupByList(gb) # <<>> \/ label # None

RECURSIVE Incomparable(_, _)
\* Python's < on two keys raises TypeError: at the first position where they
\* differ, one holds None and the other an integer
Incomparable(a, b) ==
    IF a = <<>> \/ b = <<>> THEN FALSE
    ELSE IF a[1] = b[1] THEN Incomparable(Tail(a), Tail(b))
    ELSE (a[1] = Null) # (b[1] = Null)

\* sorted(grouped_data.items(), key=sort_key) raises TypeError: two keys
\* other than (None,) cannot be compared
SortRaises(table, cols, sort_order) ==
    /\ sort_order = <<>>
    /\ \E a, b \in DistinctKeys(table, cols) \ {<<Null>>} : Incomparable(a, b)

\* bins = bins or 10
EffectiveBins(bins) == IF bins = None \/ bins[1] = 0 THEN DefaultBins ELSE bins[1]

\* the capsize of the error bars where plot_settings names none
DefaultCapsize == 3

\* dict.setdefault(k, v): the entry is appended where the key is missing
SetDefault(d, k, v) == IF HasKey(d, k) THEN d ELSE Append(d, <<k, v>>)

\* plot_settings = plot_settings or {}: None and an empty dictionary are
\* replaced by a new dictionary, any other dictionary is the caller's object
SettingsShared(plot_settings) == plot_settings # None /\ plot_settings[1] # <<>>

\* the local dictionary after the loop: every pass that reaches ax.errorbar
\* has called plot_settings.setdefault("capsize", 3) just before it; the
\* other drawing calls only unpack the dictionary
SettingsAfterLoop(settings, drawn) ==
    IF \E i \in DOMAIN drawn : drawn[i].kind = "errorbar"
    THEN SetDefault(settings, "capsize", DefaultCapsize)
    ELSE settings

\* the dictionary the caller passed as plot_settings, as the caller finds it
\* after the call that drew drawn
CallerSettings(plot_settings, drawn) ==
    IF SettingsShared(plot_settings)
    THEN Some(SettingsAfterLoop(plot_settings[1], drawn))
    ELSE plot_settings

\* what a call leaves behind: the exception raised or "ok", whether
\* plt.subplots() made new axes, the artists drawn on the axes in order, the
\* lines printed, whether the legend is shown, the labels and title set, and
\* the caller's plot_settings dictionary after the call
PlotResult(outcome, made, drawn, printed, legend, labels, plot_settings) ==
    [outcome |-> outcome, axCreated |-> made, drawn |-> drawn,
     printed |-> printed, legend |-> legend, labels |-> labels,
     plot_settings |-> CallerSettings(plot_settings, drawn)]

\* generate_plot(data, x, y, plot_type, group_by, agg_fct, ax, label,
\* verbose=verbose, bins=bins, sort_order=sort_order, y_err=y_err,
\* plot_settings=plot_settings): the exception raised or "ok", whether
\* plt.subplots() made new axes, the artists drawn on the axes in order, the
\* lines printed, whether the legend is shown, the labels and title set, and
\* the caller's plot_settings dictionary after the call
generate_plot(data, x, y, plot_type, gb, agg, ax, label, verbose, bins, sort_order, y_err, plot_settings, engine1, engine2) ==
    LET checked == Validate(data, x, y, plot_type, y_err)
        unset == [xlabel |-> None, ylabel |-> None, title |-> None]
        raise(e, made, drawn, printed) ==
            PlotResult(e, made, drawn, printed, FALSE, unset, plot_settings)
    IN  IF checked # "ok" THEN raise(checked, FALSE, <<>>, <<>>)
        ELSE IF SortRaises(data[2], GroupByList(gb), sort_order)
        THEN raise("TypeError", ax = None, <<>>, <<>>)
        ELSE IF agg # "none" /\ y # None /\ y[1] \notin Columns(data)
        THEN raise("ColumnNotFoundError", ax = None, <<>>, <<>>)
        ELSE LET prepared == _prepare_plot_data(data[2], x, y, gb, sort_order,
                                                agg, label, engine1, engine2)
                 loop == DrawAll(prepared[2], prepared[1], x, y, plot_type,
                                 y_err, GroupByList(gb) # <<>>,
                                 FrameColumns(data, x, y, gb, agg), verbose,
                                 EffectiveBins(bins))
             IN  IF loop.outcome # "ok"
                 THEN raise(loop.outcome, ax = None, loop.drawn, loop.printed)
                 ELSE PlotResult("ok", ax = None, loop.drawn, loop.printed,
                                 ShowLegend(gb, label),
                                 _setup_plot_axes(x, y, plot_type),
                                 plot_settings)

ColumnArgs == {"x", "zz"}
YArgs == {None, <<"y">>, <<"zz">>}
PlotTypes == {"plot", "hist"}
AxArgs == {None, <<"ax">>}
YErrArgs == {None, YErrStr("y"), YErrStr("zz"), YErrTuple(<<"y", "y">>),
             YErrTuple(<<"y", "zz">>), YErrOther}
BinsArgs == {None, <<1>>}
\* no plot_settings, {}, {"color": "red"} and {"capsize": 5}
PlotSettingsArgs ==
    {None, Some(<<>>), Some(<<<<"color", "red">>>>), Some(<<<<"capsize", 5>>>>)}

\* the arguments of a call that are left at their defaults unless named
DefaultArgs ==
    [agg |-> "none", label |-> None, verbose |-> FALSE, bins |-> None,
     sort_order |-> <<>>, y_err |-> None, ax |-> <<"ax">>,
     plot_settings |-> None]

GenerateCall(data, x, y, plot_type, gb, o, engine1, engine2) ==
    pcall' = [fn |-> "generate", data |-> data, x |-> x, y |-> y,
              plot_type |-> plot_type, group_by |-> gb, agg |-> o.agg,
              ax |-> o.ax, label |-> o.label, verbose |-> o.verbose,
              bins |-> o.bins, sort_order |-> o.sort_order,
              y_err |-> o.y_err, plot_settings |-> o.plot_settings,
              engine |-> engine1, engine2 |-> engine2,
              result |-> generate_plot(data, x, y, plot_type, gb, o.agg, o.ax,
                                       o.label, o.verbose, o.bins,
                                       o.sort_order, o.y_err, o.plot_settings,
                                       engine1, engine2)]

\* a call with a DataFrame and a group_by column; the order of pre_agg_data
\* is not read without verbose
GeneratePlotGrouped ==
    /\ pcall.fn = "none"
    /\ \E table \in PlotTables, x \in ColumnArgs, y \in YArgs,
          plot_type \in PlotTypes, ax \in AxArgs, y_err \in YErrArgs :
         \E engine \in EngineOrders(table, GroupCols) :
            GenerateCall(DataFrame(table), x, y, plot_type, GbList(GroupCols),
                         [DefaultArgs EXCEPT !.ax = ax, !.y_err = y_err],
                         engine, engine)
    /\ UNCHANGED fmVars

\* a call with a DataFrame and no group_by column, with or without a
\* plot_settings dictionary
GeneratePlotUngrouped ==
    /\ pcall.fn = "none"
    /\ \E table \in PlotTables, x \in ColumnArgs, y \in YArgs,
          plot_type \in PlotTypes, ax \in AxArgs, y_err \in YErrArgs,
          plot_settings \in PlotSettingsArgs :
            GenerateCall(DataFrame(table), x, y, plot_type, GbNone,
                         [DefaultArgs EXCEPT !.ax = ax, !.y_err = y_err,
                                             !.plot_settings = plot_settings],
                         <<>>, <<>>)
    /\ UNCHANGED fmVars

\* a call whose data is no DataFrame
GeneratePlotInvalidData ==
    /\ pcall.fn = "none"
    /\ \E x \in ColumnArgs, y \in YArgs, plot_type \in PlotTypes,
          gb \in {GbNone, GbList(GroupCols)}, ax \in AxArgs,
          y_err \in YErrArgs :
            GenerateCall(NotADataFrame, x, y, plot_type, gb,
                         [DefaultArgs EXCEPT !.ax = ax, !.y_err = y_err],
                         <<>>, <<>>)
    /\ UNCHANGED fmVars

\* a table of n rows that share their group and their x value
Repeated(n) == [i \in 1..n |-> [g |-> 1, x |-> 2, y |-> i]]
\* the tables of the verbose calls: some reach the warning threshold
VerboseTables == PlotTables \cup {Repeated(WarnLimit), Repeated(WarnLimit + 1)}
AggFcts == {"sum", "min"}

\* a call with a group_by column, a sort_order and a label; the order of
\* pre_agg_data is not read without verbose
GeneratePlotSorted ==
    /\ pcall.fn = "none"
    /\ \E table \in PlotTables, sort_order \in PrepSortOrders,
          plot_type \in PlotTypes, label \in LabelArgs :
         \E engine \in EngineOrders(table, GroupCols) :
            GenerateCall(DataFrame(table), "x", <<"y">>, plot_type, GbStr("g"),
                         [DefaultArgs EXCEPT !.sort_order = sort_order,
                                             !.label = label],
                         engine, engine)
    /\ UNCHANGED fmVars

TwoCols == <<"g", "x">>

\* a call with two group_by columns
GeneratePlotTwoColumns ==
    /\ pcall.fn = "none"
    /\ \E table \in PlotTables,
          sort_order \in {<<>>, <<Tuple(<<1, 2>>)>>, <<Scalar(1)>>} :
         \E engine \in EngineOrders(table, TwoCols) :
            GenerateCall(DataFrame(table), "x", <<"y">>, "plot", GbList(TwoCols),
                         [DefaultArgs EXCEPT !.sort_order = sort_order],
                         engine, engine)
    /\ UNCHANGED fmVars

\* a call with an aggregation function
GeneratePlotAggregated ==
    /\ pcall.fn = "none"
    /\ \E table \in PlotTables, gb \in {GbNone, GbStr("g")}, agg \in AggFcts,
          y \in YArgs, plot_type \in PlotTypes :
         \E engine \in EngineOrders(table, GroupByList(gb)) :
            GenerateCall(DataFrame(table), "x", y, plot_type, gb,
                         [DefaultArgs EXCEPT !.agg = agg], engine, engine)
    /\ UNCHANGED fmVars

\* a call without group_by columns, with or without a label
GeneratePlotLabelled ==
    /\ pcall.fn = "none"
    /\ \E table \in PlotTables, gb \in {GbNone, GbList(<<>>)},
          label \in LabelArgs, y \in {None, <<"y">>}, plot_type \in PlotTypes :
            GenerateCall(DataFrame(table), "x", y, plot_type, gb,
                         [DefaultArgs EXCEPT !.label = label], <<>>, <<>>)
    /\ UNCHANGED fmVars

\* a call in verbose mode
GeneratePlotVerbose ==
    /\ pcall.fn = "none"
    /\ \E table \in VerboseTables, gb \in {GbNone, GbStr("g")},
          agg \in {"none", "sum"}, plot_type \in PlotTypes, bins \in BinsArgs :
         \E engine1, engine2 \in EngineOrders(table, GroupByList(gb)) :
            GenerateCall(DataFrame(table), "x", <<"y">>, plot_type, gb,
                         [DefaultArgs EXCEPT !.agg = agg, !.verbose = TRUE,
                                             !.bins = bins],
                         engine1, engine2)
    /\ UNCHANGED fmVars

InitPlot == FMInit(NoArgs) /\ pcall = NoPlot

NextPlot ==
    \/ SortGroups
    \/ PreparePlotDataGrouped
    \/ PreparePlotDataUngrouped
    \/ GeneratePlotGrouped
    \/ GeneratePlotUngrouped
    \/ GeneratePlotInvalidData
    \/ GeneratePlotSorted
    \/ GeneratePlotTwoColumns
    \/ GeneratePlotAggregated
    \/ GeneratePlotLabelled
    \/ GeneratePlotVerbose

SpecPlot == InitPlot /\ [][NextPlot]_vars

(***************************************************************************)
(* Claims about plotter.py, checked under SpecPlot.                        *)
(***************************************************************************)
SortCall == pcall.fn = "sort"
SeqRange(q) == {q[i] : i \in DOMAIN q}

\* a sort_order entry read as a key: a scalar is a 1-tuple
C6_Key(item) == IF item[1] = "s" THEN <<item[2]>> ELSE item[2]

RECURSIVE C6_Named(_, _, _)
\* the groups a sort_order names, each once, in the order it lists them
C6_Named(order, groups, acc) ==
    IF order = <<>> THEN acc
    ELSE IF C6_Key(order[1]) \in groups /\ C6_Key(order[1]) \notin SeqRange(acc)
         THEN C6_Named(Tail(order), groups, Append(acc, C6_Key(order[1])))
         ELSE C6_Named(Tail(order), groups, acc)

\* C6: with a non-empty sort_order, _sort_groups returns the groups named in
\* sort_order first, in the order sort_order lists them (a scalar entry read
\* as a 1-tuple key, an entry naming no group skipped), followed by every
\* group sort_order does not name.
C6_NamedGroupsFirst ==
    (SortCall /\ pcall.sort_order # <<>>) =>
        LET groups == DistinctKeys(pcall.data, GroupCols)
            keys == DictKeys(pcall.result)
            named == C6_Named(pcall.sort_order, groups, <<>>)
        IN  /\ Len(keys) = Cardinality(groups)
            /\ SubSeq(keys, 1, Len(named)) = named
            /\ {keys[i] : i \in (Len(named) + 1)..Len(keys)}
                   = groups \ SeqRange(named)

\* a sort_order with a scalar entry naming a group and an entry naming none,
\* on a table that also has a group sort_order does not name
C6_Witness ==
    /\ SortCall
    /\ LET groups == DistinctKeys(pcall.data, GroupCols)
           order == pcall.sort_order
       IN  /\ \E i \in DOMAIN order :
                order[i][1] = "s" /\ <<order[i][2]>> \in groups
           /\ \E i \in DOMAIN order : C6_Key(order[i]) \notin groups
           /\ \E k \in groups : \A i \in DOMAIN order : C6_Key(order[i]) # k
           /\ DictKeys(pcall.result)[1] \in {C6_Key(order[i]) : i \in DOMAIN order}

\* C7: _sort_groups places the null group last, after every other group,
\* under the default ordering and under a custom sort_order that does not
\* name the null group.
C7_NullGroupLast ==
    (/\ SortCall
     /\ <<Null>> \in DistinctKeys(pcall.data, GroupCols)
     /\ \A i \in DOMAIN pcall.sort_order : C6_Key(pcall.sort_order[i]) # <<Null>>)
    => LET keys == DictKeys(pcall.result)
       IN  keys[Len(keys)] = <<Null>>

\* C8: the key order _sort_groups returns for a table and a sort_order is
\* the same whatever order the grouping engine yields the groups in.
C8_OrderIndependentOfEngine ==
    SortCall =>
        \A engine \in EngineOrders(pcall.data, GroupCols) :
            DictKeys(_sort_groups(pcall.data, GroupCols, pcall.sort_order, engine))
                = DictKeys(pcall.result)

\* the dict d has exactly one entry per group of table, each holding exactly
\* the rows of table with that key, in the table's order
C9_OneEntryPerGroup(d, table) ==
    LET groups == DistinctKeys(table, GroupCols)
    IN  /\ Len(d) = Cardinality(groups)
        /\ SeqRange(DictKeys(d)) = groups
        /\ \A i \in DOMAIN d :
              d[i][2] = SelectSeq(table, LAMBDA row : <<row.g>> = d[i][1])

PrepareCalled == pcall.fn = "prepare"
PrepareGrouped == PrepareCalled /\ GroupByList(pcall.group_by) # <<>>

C9_AggregatedRow(table, xv, key, agg) ==
    LET rows == SelectSeq(table, LAMBDA row : row.x = xv /\ <<row.g>> = key)
        ys == {rows[i].y : i \in DOMAIN rows}
    IN  [g |-> key[1], x |-> xv,
         y |-> IF agg = "min"
               THEN CHOOSE m \in ys : \A v \in ys : m <= v
               ELSE SumOf([i \in DOMAIN rows |-> rows[i].y])]

\* the entry of one group after aggregation: one row per x value of the
\* group, in ascending x order
C9_AggregatedEntry(table, key, agg) ==
    LET xs == {table[i].x : i \in {i \in DOMAIN table : <<table[i].g>> = key}}
        ordered == SortedTuples({<<xv>> : xv \in xs})
    IN  [i \in DOMAIN ordered |-> C9_AggregatedRow(table, ordered[i][1], key, agg)]

GenerateCalled == pcall.fn = "generate"

\* C10: generate_plot raises TypeError when data is not a Polars DataFrame,
\* whatever the other arguments are: before any column-name check, and
\* before any axes are created or drawn on.
C10_TypeErrorFirst ==
    (GenerateCalled /\ pcall.data[1] # "df") =>
        /\ pcall.result.outcome = "TypeError"
        /\ ~pcall.result.axCreated
        /\ pcall.result.drawn = <<>>

\* generate_plot was called without axes, with data that is no DataFrame
\* and an x that would fail the column-name check
C10_Witness ==
    /\ GenerateCalled
    /\ pcall.data[1] # "df"
    /\ pcall.x = "zz"
    /\ pcall.ax = None
    /\ pcall.result.outcome = "TypeError"

\* the columns of every table of the model
C11_Columns == {"g", "x", "y"}

\* one of the column arguments of the last call names no column: x, or y
\* when the plot is no histogram, or a string y_err, or an entry of a tuple
\* or list y_err
C11_BadColumn ==
    \/ pcall.x \notin C11_Columns
    \/ pcall.y # None /\ pcall.y[1] \notin C11_Columns /\ pcall.plot_type # "hist"
    \/ pcall.y_err # None /\ pcall.y_err[1] = "str"
         /\ pcall.y_err[2] \notin C11_Columns
    \/ pcall.y_err # None /\ pcall.y_err[1] = "tuple"
         /\ \E i \in DOMAIN pcall.y_err[2] : pcall.y_err[2][i] \notin C11_Columns

\* C11: generate_plot raises ValueError when x is not a column of data,
\* when y is given, is not a column and plot_type is not 'hist', when a
\* string y_err is not a column, or when a tuple/list y_err contains an
\* entry that is not a column name; in each case nothing has been drawn on
\* the supplied axes and no new axes have been created.
C11_ColumnErrorsRaiseEarly ==
    (GenerateCalled /\ pcall.data[1] = "df" /\ C11_BadColumn) =>
        /\ pcall.result.outcome = "ValueError"
        /\ pcall.result.drawn = <<>>
        /\ ~pcall.result.axCreated

\* generate_plot was called without axes, with valid x and y and a y_err
\* tuple whose second entry alone is no column
C11_Witness ==
    /\ GenerateCalled
    /\ pcall.data[1] = "df"
    /\ pcall.x = "x" /\ pcall.y = <<"y">> /\ pcall.plot_type = "plot"
    /\ pcall.ax = None
    /\ pcall.y_err = <<"tuple", <<"y", "zz">>>>
    /\ pcall.result.outcome = "ValueError"

\* C12: generate_plot raises TypeError whenever y_err is given with a value
\* that is neither a column-name string nor a tuple/list of column names,
\* for every plot_type and whether or not y is given (the other arguments
\* being valid).
C12_InvalidYErrTypeRaises ==
    (/\ GenerateCalled
     /\ pcall.data[1] = "df"
     /\ pcall.x \in C11_Columns
     /\ pcall.y # None => pcall.y[1] \in C11_Columns
     /\ pcall.y_err # None
     /\ pcall.y_err[1] \notin {"str", "tuple"}) =>
        pcall.result.outcome = "TypeError"

\* the last call was a generate_plot call that returned
GenerateReturned == GenerateCalled /\ pcall.result.outcome = "ok"

\* the labelled series among the artists drawn: everything but the bands
\* of fill_between
SeriesDrawn == SelectSeq(pcall.result.drawn, LAMBDA a : a.kind # "fill_between")

\* the group keys of the last call in the order of _sort_groups, for the
\* engine order of the call that yields sorted_groups; the one key () of
\* the whole table without group_by columns
GroupKeys ==
    IF GroupByList(pcall.group_by) = <<>> THEN << <<>> >>
    ELSE DictKeys(_sort_groups(pcall.data[2], GroupByList(pcall.group_by),
                               pcall.sort_order, pcall.engine2))

\* the key components of a group as strings, joined by ', '
C13_Str(v) == IF v = Null THEN <<"None">> ELSE Str(v)
C13_Label(key) ==
    IF Len(key) = 1 THEN C13_Str(key[1])
    ELSE C13_Str(key[1]) \o <<", ">> \o C13_Str(key[2])

\* C13: when group_by is non-empty, generate_plot draws exactly one series
\* per group, in the order returned by _sort_groups, each labelled with the
\* group's key components converted to strings and joined by ', '.
C13_OneLabelledSeriesPerGroup ==
    (GenerateReturned /\ GroupByList(pcall.group_by) # <<>>) =>
        /\ Len(SeriesDrawn) =
              Cardinality(DistinctKeys(pcall.data[2], GroupByList(pcall.group_by)))
        /\ Len(SeriesDrawn) = Len(GroupKeys)
        /\ \A i \in DOMAIN SeriesDrawn :
              SeriesDrawn[i].label = C13_Label(GroupKeys[i])

\* generate_plot returned after drawing two groups of two key components,
\* the first one named by sort_order out of ascending order
C13_Witness ==
    /\ GenerateReturned
    /\ GroupByList(pcall.group_by) = <<"g", "x">>
    /\ Len(SeriesDrawn) = 2
    /\ pcall.sort_order # <<>>
    /\ SeriesDrawn[1].label = <<"1", ", ", "2">>
    /\ SeriesDrawn[2].label = <<"None", ", ", "2">>

\* what a call draws and sets that a histogram call differing in y alone
\* must share
C14_Shown(result) == <<result.outcome, result.drawn, result.labels>>

\* C14: for plot_type 'hist' only x is required and y is ignored: two
\* generate_plot calls that differ only in whether y is passed (or in which
\* value y has) both succeed and produce the same drawn data, axis labels
\* and title.
C14_HistIgnoresY ==
    (GenerateReturned /\ pcall.plot_type = "hist" /\ pcall.y = None) =>
        \A y \in YArgs :
            C14_Shown(generate_plot(pcall.data, pcall.x, y, pcall.plot_type,
                                    pcall.group_by, pcall.agg, pcall.ax,
                                    pcall.label, pcall.verbose, pcall.bins,
                                    pcall.sort_order, pcall.y_err,
                                    pcall.plot_settings,
                                    pcall.engine, pcall.engine2))
              = C14_Shown(pcall.result)

RECURSIVE C15_Ascending(_)
\* the integers of a set in ascending order
C15_Ascending(S) ==
    IF S = {} THEN <<>>
    ELSE LET least == CHOOSE v \in S : \A u \in S : v <= u
         IN  <<least>> \o C15_Ascending(S \ {least})

\* the rows of data in the group of a key, in the order of data
C15_GroupRows(key) == RowsOf(pcall.data[2], GroupByList(pcall.group_by), key)

\* agg_fct applied to the y values of the rows holding one x value
C15_Point(rows, v) ==
    AggValue(pcall.agg,
             Column(SelectSeq(rows, LAMBDA row : row[pcall.x] = v), pcall.y[1]))

C17_LegendAndLabel ==
    GenerateReturned =>
        /\ pcall.result.legend
              <=> (GroupByList(pcall.group_by) # <<>> \/ pcall.label # None)
        /\ (GroupByList(pcall.group_by) = <<>> /\ pcall.label # None) =>
              /\ Len(SeriesDrawn) = 1
              /\ SeriesDrawn[1].label = pcall.label

\* generate_plot returned from a call with a label and no group_by column
C17_Witness ==
    /\ GenerateReturned
    /\ GroupByList(pcall.group_by) = <<>>
    /\ pcall.label = <<"L">>
    /\ pcall.result.legend
    /\ Len(pcall.data[2]) > 0

\* the rows of a group before the aggregation, and the minimum count
\* _get_min_count_info computes for them: over the histogram bins for a
\* histogram, over the x values otherwise
C18_Info(key) ==
    _get_min_count_info(C15_GroupRows(key), pcall.x,
                        IF pcall.plot_type = "hist"
                        THEN Some(EffectiveBins(pcall.bins)) ELSE None)

\* C18: in verbose mode generate_plot reports, for each group, the number
\* of rows of that group before aggregation together with the minimum count
\* computed by _get_min_count_info, and the line is printed with the
\* 'WARNING: ' prefix exactly when that minimum count is <= 5.
C18_VerboseReportsEachGroup ==
    (GenerateCalled /\ pcall.verbose /\ pcall.data[1] = "df") =>
        /\ pcall.result.outcome = "ok"
        /\ Len(pcall.result.printed) = Len(GroupKeys)
        /\ \A i \in DOMAIN pcall.result.printed :
              LET line == pcall.result.printed[i]
              IN  /\ line.n = Len(C15_GroupRows(GroupKeys[i]))
                  /\ Some(line.min_count) = C18_Info(GroupKeys[i]).min_count
                  /\ line.warning <=> line.min_count <= 5

\* the keys of a dict as a set
C22_KeySet(d) == {d[i][1] : i \in DOMAIN d}
\* no key occurs twice in a dict
C22_Dict(d) == \A i, j \in DOMAIN d : d[i][1] = d[j][1] => i = j

\* C22: _prepare_plot_data returns pre_agg_data and sorted_groups with
\* identical key sets for every combination of group_by, sort_order,
\* agg_fct and label (a single key (label,) when group_by is empty), so the
\* verbose lookup pre_agg_data[group_name] in generate_plot is defined for
\* every group it iterates.
C22_SameKeys ==
    /\ PrepareCalled =>
          /\ C22_Dict(pcall.result[1]) /\ C22_Dict(pcall.result[2])
          /\ C22_KeySet(pcall.result[1]) = C22_KeySet(pcall.result[2])
          /\ GroupByList(pcall.group_by) = <<>> =>
                C22_KeySet(pcall.result[2]) = {pcall.label}
    /\ (GenerateCalled /\ pcall.verbose) => pcall.result.outcome # "KeyError"

\* _prepare_plot_data returned two groups, one of them the null group, for
\* a call with a group_by column, a sort_order and an aggregation
C22_Witness ==
    /\ PrepareCalled
    /\ GroupByList(pcall.group_by) # <<>>
    /\ pcall.agg # "none" /\ pcall.y_col # None
    /\ pcall.sort_order # <<>>
    /\ Len(pcall.result[2]) = 2
    /\ <<Null>> \in C22_KeySet(pcall.result[2])

\* C23: generate_plot does not modify the plot_settings dictionary passed by
\* the caller: its contents after the call equal its contents before the
\* call, for every plot_type and every form of y_err.
C23_PlotSettingsUnchanged ==
    (GenerateCalled /\ pcall.plot_settings # None) =>
        pcall.result.plot_settings = pcall.plot_settings

====
